---- MODULE Spec2Model ----
(***************************************************************************)
(* FreshCart recommender: the data processor (utils/data_prep.py) and the  *)
(* recommendation engine (utils/recommender.py) as a state machine.        *)
(*                                                                         *)
(* Numbers.  Counts are integers.  A cosine similarity is kept exactly, as *)
(* the pair [num, den] standing for num / sqrt(den) (num >= 0, den > 0);   *)
(* an integer count c used as a score is [num |-> c, den |-> 1].  Values   *)
(* are compared by cross-multiplying the squares.  A sum of similarities   *)
(* is kept exactly too, over the basis 1, sqrt(2), sqrt(3), sqrt(6); the   *)
(* code adds floating point numbers.  The floating point                   *)
(* division of a zero row by its zero sum (NaN) is modelled by its effect: *)
(* sklearn's cosine_similarity rejects the input and fit raises.           *)
(*                                                                         *)
(* Order.  sort_values is called with pandas' default kind, which is not   *)
(* stable.  The product statistics list their rows by name before the      *)
(* sort, so every order of products with equal counts is a possible result.*)
(* A column of a product matrix is listed in index order before the sort and*)
(* its equal values are kept in that order; the index order is the         *)
(* iteration order of a Python set of strings, which the build does not    *)
(* fix: Fit chooses it among all permutations, so the equal values of a    *)
(* column too may come out in any order.  A column of the customer matrix  *)
(* is listed by customer number, so the sort of a customer's similarities  *)
(* is given every order of equally similar customers.  Python's sorted()   *)
(* is stable.                                                              *)
(*                                                                         *)
(* Inputs.  The transaction files are non-empty (load_data reports the     *)
(* first and last date) and list their rows in (customer, date, product)   *)
(* order; none of the matrices depends on the order of the rows.           *)
(***************************************************************************)
EXTENDS Integers, Sequences, FiniteSets, TLC

VARIABLES
    file,                         \* rows of the CSV at data_path
    df,                           \* DataProcessor.df
    product_stats_cache,          \* lru_cache of DataProcessor.get_product_stats
    customer_product_matrix,      \* FreshCartRecommender fields
    product_cooccurrence_matrix,
    unique_products,              \* index (row/column order) of the product matrices
    product_similarity_matrix,
    customer_similarity_matrix,
    svd_model,
    status,                       \* "new", "load_failed", "fitted" or "fit_failed"
    result                        \* the last query and the list it returned

vars == <<file, df, product_stats_cache, customer_product_matrix,
          product_cooccurrence_matrix, unique_products, product_similarity_matrix,
          customer_similarity_matrix, svd_model, status, result>>

---------------------------------------------------------------------------
\* Bounds of the model.

MaxRows == 4          \* rows in the transaction file
MaxRowsBasket == 2    \* rows in the transaction file, basket specification
MaxN == 2             \* largest n_recommendations / n_products asked for
MaxBasketLen == 4     \* longest basket list passed to get_basket_recommendations
MaxBasketLenWide == 2 \* longest basket list, specification over the longer files
MaxRowsReload == 3    \* rows the transaction file grows to, re-load specification
MaxRowsAnyOrder == 3  \* rows in a transaction file whose rows are in any order
MaxRowsNeighbours == 4 \* rows in a transaction file of three customers

Products == {"A", "B", "C"}
Customers == {1, 2}

\* The (customer, date) pairs on which purchases are recorded: customer 1 shops
\* on two days, customer 2 on one.
BasketKeys == {<<1, 1>>, <<1, 2>>, <<2, 1>>}

None == <<>>

\* Lexicographic rank of a product name (Python string order).
ProductRank(p) ==
    CASE p = "A" -> 1 [] p = "B" -> 2 [] p = "C" -> 3 [] p = "D" -> 4 [] p = "E" -> 5

\* The product names a caller can pass: those of the transactions and one
\* that occurs in no transaction.
CatalogProducts == Products \cup {"D"}

\* The pairs of names explain_recommendation is asked about: the catalog and
\* a second product without a category entry.
ExplainProducts == CatalogProducts \cup {"E"}

Rows == {[CustomerID |-> k[1], Date |-> k[2], Product |-> p] : k \in BasketKeys, p \in Products}

RowRank(r) == (r.CustomerID * 10 + r.Date) * 10 + ProductRank(r.Product)

\* The transaction files drawn: non-empty, at most MaxRows rows, listed in
\* (customer, date, product) order; a product may repeat within a basket.
Files(maxrows) ==
    {f \in UNION {[1..k -> Rows] : k \in 1..maxrows} :
        \A i \in 1..(Len(f) - 1) : RowRank(f[i]) <= RowRank(f[i + 1])}

---------------------------------------------------------------------------
\* Generic helpers.

Range(s) == {s[i] : i \in DOMAIN s}

Min(a, b) == IF a <= b THEN a ELSE b

Head_(s, n) == SubSeq(s, 1, Min(n, Len(s)))          \* Series.head(n) / list[:n], n >= 0

RECURSIVE SumOver(_, _)
SumOver(S, f) ==
    IF S = {} THEN 0
    ELSE LET x == CHOOSE y \in S : TRUE IN f[x] + SumOver(S \ {x}, f)

RECURSIVE FilterSeq(_, _)
\* The subsequence of s whose elements are in the set Keep.
FilterSeq(s, Keep) ==
    IF s = <<>> THEN <<>>
    ELSE IF Head(s) \in Keep THEN <<Head(s)>> \o FilterSeq(Tail(s), Keep)
    ELSE FilterSeq(Tail(s), Keep)

Permutations_(S) ==
    {s \in [1..Cardinality(S) -> S] : \A i, j \in DOMAIN s : i # j => s[i] # s[j]}

---------------------------------------------------------------------------
\* DataProcessor (utils/data_prep.py)

\* load_data: read_csv of the file.
load_data(f) == f

\* Sorted list of the group keys of groupby(['CustomerID', 'Date']).
KeyRank(k) == k[1] * 10 + k[2]

GroupKeys(d) == {<<d[i].CustomerID, d[i].Date>> : i \in DOMAIN d}

RECURSIVE SortKeys(_)
SortKeys(K) ==
    IF K = {} THEN <<>>
    ELSE LET m == CHOOSE k \in K : \A o \in K : KeyRank(k) <= KeyRank(o)
         IN <<m>> \o SortKeys(K \ {m})

RECURSIVE GroupProductsDistinct(_, _)
GroupProductsDistinct(d, k) ==
    IF d = <<>> THEN <<>>
    ELSE LET rest == GroupProductsDistinct(Tail(d), k)
         IN IF <<Head(d).CustomerID, Head(d).Date>> = k /\ Head(d).Product \notin Range(rest)
            THEN <<Head(d).Product>> \o rest
            ELSE rest

RECURSIVE GroupProducts(_, _)
\* The products of the rows of d with group key k, in row order.
GroupProducts(d, k) ==
    IF d = <<>> THEN <<>>
    ELSE IF <<Head(d).CustomerID, Head(d).Date>> = k
         THEN <<Head(d).Product>> \o GroupProducts(Tail(d), k)
         ELSE GroupProducts(Tail(d), k)

\* get_basket_data: one basket per (customer, date) group, in key order.
get_basket_data(d) ==
    LET keys == SortKeys(GroupKeys(d))
    IN [b \in DOMAIN keys |->
          LET prods == GroupProducts(d, keys[b])
          IN [CustomerID |-> keys[b][1], Date |-> keys[b][2],
              Products |-> prods, BasketSize |-> Len(prods)]]

ProductsOf(d) == {d[i].Product : i \in DOMAIN d}
CustomersOf(d) == {d[i].CustomerID : i \in DOMAIN d}

\* get_customer_product_matrix: 1 iff the customer has a row for the product.
get_customer_product_matrix(d) ==
    [c \in CustomersOf(d) |->
        [p \in ProductsOf(d) |->
            IF \E i \in DOMAIN d : d[i].CustomerID = c /\ d[i].Product = p THEN 1 ELSE 0]]

\* The inner loops of get_product_cooccurrence_matrix for one basket: the
\* number of position pairs (i, j) that increment [product1, product2].
PairCountUpper(products, product1, product2) ==
    Cardinality({ij \in (DOMAIN products) \X (DOMAIN products) :
                    /\ ij[1] < ij[2]
                    /\ products[ij[1]] = product1
                    /\ products[ij[2]] = product2})

\* Counts a pair once per basket that holds both products.
PairCountDistinct(products, product1, product2) ==
    IF product1 # product2 /\ product1 \in Range(products) /\ product2 \in Range(products)
    THEN 1 ELSE 0

PairCount(products, product1, product2) ==
    Cardinality({ij \in (DOMAIN products) \X (DOMAIN products) :
                    /\ ij[1] # ij[2]
                    /\ products[ij[1]] = product1
                    /\ products[ij[2]] = product2})

\* get_product_cooccurrence_matrix: cooc[product1][product2].
get_product_cooccurrence_matrix(d) ==
    LET baskets == get_basket_data(d)
    IN [product1 \in ProductsOf(d) |->
          [product2 \in ProductsOf(d) |->
              SumOver(DOMAIN baskets,
                      [b \in DOMAIN baskets |->
                          PairCount(baskets[b].Products, product1, product2)])]]

\* get_product_stats: per product the row count and the number of distinct
\* customers, sorted by row count descending.  sort_values is called with its
\* default kind, which pandas documents as not stable: products with equal
\* counts come out in an order the numpy build picks.
TotalTransactions(d, p) == Cardinality({i \in DOMAIN d : d[i].Product = p})

UniqueCustomers(d, p) == Cardinality({d[i].CustomerID : i \in {j \in DOMAIN d : d[j].Product = p}})

\* The orders sort_values('TotalTransactions', ascending=False) may leave.
sort_values_orders(d) ==
    {order \in Permutations_(ProductsOf(d)) :
        \A i, j \in DOMAIN order :
            i < j => TotalTransactions(d, order[i]) >= TotalTransactions(d, order[j])}

\* DataProcessor.product_categories, a static table; an optional value is a
\* sequence of length at most one, None for a product without an entry.
product_categories(p) ==
    CASE p = "A" -> <<"Pantry">>
      [] p = "B" -> <<"Beverages">>
      [] p = "D" -> <<"Pantry">>
      [] OTHER -> None

product_stats_frame(d, order) ==
    [i \in DOMAIN order |->
        [Product |-> order[i],
         TotalTransactions |-> TotalTransactions(d, order[i]),
         UniqueCustomers |-> UniqueCustomers(d, order[i]),
         Category |-> product_categories(order[i])]]

\* The frames one computation of get_product_stats may return.
compute_product_stats(d) == {product_stats_frame(d, order) : order \in sort_values_orders(d)}

---------------------------------------------------------------------------
\* Similarity values: [num, den] stands for num / sqrt(den).

\* num / sqrt(den) in lowest terms: the largest g with g | num and g*g | den is
\* divided out.  A zero norm (den = 0) gives similarity 0, as sklearn does.
Sim(num, den) ==
    IF den = 0 \/ num = 0 THEN [num |-> 0, den |-> 1]
    ELSE LET Divides(g) == num % g = 0 /\ den % (g * g) = 0
             g == CHOOSE x \in 1..num : Divides(x) /\ \A y \in (x + 1)..num : ~Divides(y)
         IN [num |-> num \div g, den |-> den \div (g * g)]

Count(c) == [num |-> c, den |-> 1]

SimLess(x, y) == x.num * x.num * y.den < y.num * y.num * x.den

\* x + y where the model can state the sum exactly.
SimAdd(x, y) ==
    CASE x.num = 0 -> y
      [] y.num = 0 -> x
      [] x.den = y.den -> [num |-> x.num + y.num, den |-> x.den]

\* Sums of customer similarities.  A customer row over at most three products
\* has norm sqrt(1), sqrt(2) or sqrt(3), so a similarity is num / sqrt(den) with
\* den in {1, 2, 3, 4, 6, 9}, and six times a sum of similarities is
\* r1 + r2*sqrt(2) + r3*sqrt(3) + r6*sqrt(6) with integer r's; the sum is kept
\* as that vector, which is unique because 1, sqrt(2), sqrt(3), sqrt(6) are
\* independent over the rationals.
SimSumZero == [r1 |-> 0, r2 |-> 0, r3 |-> 0, r6 |-> 0]

SimSumOf(x) ==
    CASE x.num = 0 -> SimSumZero
      [] x.num # 0 /\ x.den = 1 -> [SimSumZero EXCEPT !.r1 = 6 * x.num]
      [] x.num # 0 /\ x.den = 4 -> [SimSumZero EXCEPT !.r1 = 3 * x.num]
      [] x.num # 0 /\ x.den = 9 -> [SimSumZero EXCEPT !.r1 = 2 * x.num]
      [] x.num # 0 /\ x.den = 2 -> [SimSumZero EXCEPT !.r2 = 3 * x.num]
      [] x.num # 0 /\ x.den = 3 -> [SimSumZero EXCEPT !.r3 = 2 * x.num]
      [] x.num # 0 /\ x.den = 6 -> [SimSumZero EXCEPT !.r6 = x.num]

SimSumAdd(x, y) ==
    [r1 |-> x.r1 + y.r1, r2 |-> x.r2 + y.r2, r3 |-> x.r3 + y.r3, r6 |-> x.r6 + y.r6]

Sign(x) == IF x > 0 THEN 1 ELSE IF x < 0 THEN -1 ELSE 0

\* The sign of p + q*sqrt(k), k not a square: with opposite signs of p and q
\* the larger of p*p and k*q*q decides.
SignWithRoot(p, q, k) ==
    IF Sign(p) = Sign(q) \/ q = 0 THEN Sign(p)
    ELSE IF p = 0 THEN Sign(q)
    ELSE Sign(p) * Sign(p * p - k * q * q)

\* The sign of the sum s = u + v*sqrt(3), u = (r1 + r2*sqrt(2)) / 6 and
\* v = (r3 + r6*sqrt(2)) / 6: with opposite signs of u and v the sign of
\* u*u - 3*v*v, itself of the form p + q*sqrt(2), decides.
SimSumSign(s) ==
    LET su == SignWithRoot(s.r1, s.r2, 2)
        sv == SignWithRoot(s.r3, s.r6, 2)
        p == (s.r1 * s.r1 + 2 * s.r2 * s.r2) - 3 * (s.r3 * s.r3 + 2 * s.r6 * s.r6)
        q == 2 * s.r1 * s.r2 - 6 * s.r3 * s.r6
    IN IF su = sv \/ sv = 0 THEN su
       ELSE IF su = 0 THEN sv
       ELSE su * SignWithRoot(p, q, 2)

SimSumLess(x, y) ==
    SimSumSign([r1 |-> y.r1 - x.r1, r2 |-> y.r2 - x.r2,
                r3 |-> y.r3 - x.r3, r6 |-> y.r6 - x.r6]) = 1

Dot(u, v) == SumOver(DOMAIN u, [k \in DOMAIN u |-> u[k] * v[k]])

CosineOverFirstNorm(m) ==
    [a \in DOMAIN m |->
        [b \in DOMAIN m |-> Sim(Dot(m[a], m[b]), Dot(m[a], m[a]) * Dot(m[a], m[a]))]]

\* sklearn cosine_similarity between the rows of m (a zero row has similarity 0);
\* dividing a row by its positive sum does not change the cosine.
cosine_similarity(m) ==
    [a \in DOMAIN m |->
        [b \in DOMAIN m |-> Sim(Dot(m[a], m[b]), Dot(m[a], m[a]) * Dot(m[b], m[b]))]]

RowSum(m, a) == SumOver(DOMAIN m[a], m[a])

\* _calculate_product_similarity raises iff a row sum is 0: 0/0 is NaN and
\* cosine_similarity rejects NaN input.
NormalizationHasNaN(cooc) == \E a \in DOMAIN cooc : RowSum(cooc, a) = 0

\* _fit_svd_model: n_components = min(15, number of products - 1).
SvdMaxComponents == 15

SvdComponents(cpm) ==
    LET anyrow == CHOOSE c \in DOMAIN cpm : TRUE
        nproducts == Cardinality(DOMAIN cpm[anyrow])
    IN Min(SvdMaxComponents, nproducts - 1)

---------------------------------------------------------------------------
\* Sorting.

RECURSIVE SortDescending(_, _)
\* Series.sort_values(ascending=False) / sorted(..., reverse=True): the keys
\* of the sequence idx by value val[k] descending, equal values in idx order.
SortDescending(idx, val) ==
    IF idx = <<>> THEN <<>>
    ELSE LET best == CHOOSE i \in DOMAIN idx :
                        /\ \A j \in DOMAIN idx : ~SimLess(val[idx[i]], val[idx[j]])
                        /\ \A j \in 1..(i - 1) : SimLess(val[idx[j]], val[idx[i]])
         IN <<idx[best]>> \o
            SortDescending([k \in 1..(Len(idx) - 1) |-> IF k < best THEN idx[k] ELSE idx[k + 1]],
                           val)

\* Series.drop(label).
Drop(s, label) == FilterSeq(s, Range(s) \ {label})

---------------------------------------------------------------------------
\* FreshCartRecommender (utils/recommender.py): the query strategies, as
\* operators over the fitted matrices.

Rec(product, score, method) == [product |-> product, score |-> score, method |-> method]

ProductsIn(recs) == {recs[i].product : i \in DOMAIN recs}

\* Column `product` of a product matrix, as scores.
SimilarityColumn(psim, product) == [q \in DOMAIN psim |-> psim[q][product]]

CooccurrenceColumn(cooc, product) == [q \in DOMAIN cooc |-> Count(cooc[q][product])]

SimilarityKeepsSelf(psim, idx, product, n_recommendations) ==
    LET similarities == SortDescending(idx, SimilarityColumn(psim, product))
        top == Head_(similarities, n_recommendations)
    IN [i \in DOMAIN top |-> Rec(top[i], psim[top[i]][product], "similarity")]

\* _get_similarity_recommendations
get_similarity_recommendations(psim, idx, product, n_recommendations) ==
    LET similarities == Drop(SortDescending(idx, SimilarityColumn(psim, product)), product)
        top == Head_(similarities, n_recommendations)
    IN [i \in DOMAIN top |-> Rec(top[i], psim[top[i]][product], "similarity")]

RECURSIVE PositiveOnly(_, _, _)
\* The loop of _get_cooccurrence_recommendations: keep the entries with count > 0.
PositiveOnly(top, cooc, product) ==
    IF top = <<>> THEN <<>>
    ELSE (IF cooc[Head(top)][product] > 0
          THEN <<Rec(Head(top), Count(cooc[Head(top)][product]), "cooccurrence")>>
          ELSE <<>>) \o PositiveOnly(Tail(top), cooc, product)

CooccurrenceUnsorted(cooc, idx, product, n_recommendations) ==
    PositiveOnly(Head_(Drop(idx, product), n_recommendations), cooc, product)

\* _get_cooccurrence_recommendations
get_cooccurrence_recommendations(cooc, idx, product, n_recommendations) ==
    LET cooccurrences == Drop(SortDescending(idx, CooccurrenceColumn(cooc, product)), product)
    IN PositiveOnly(Head_(cooccurrences, n_recommendations), cooc, product)

RECURSIVE Deduplicate(_, _)
\* The all_recs dict of _get_hybrid_recommendations: first occurrence of each
\* product, in insertion order.
Deduplicate(recs, seen) ==
    IF recs = <<>> THEN <<>>
    ELSE IF Head(recs).product \in seen THEN Deduplicate(Tail(recs), seen)
    ELSE <<Head(recs)>> \o Deduplicate(Tail(recs), seen \cup {Head(recs).product})

Relabel(recs, method) == [i \in DOMAIN recs |-> [recs[i] EXCEPT !.method = method]]

HybridFactor == 2

HybridSimilarityFirst(cooc, psim, idx, product, n_recommendations) ==
    LET co_recs == get_cooccurrence_recommendations(cooc, idx, product,
                                                    n_recommendations * HybridFactor)
        sim_recs == get_similarity_recommendations(psim, idx, product, n_recommendations)
    IN Relabel(Head_(Deduplicate(sim_recs \o co_recs, {}), n_recommendations), "hybrid")

HybridCooccurrenceOnly(cooc, psim, idx, product, n_recommendations) ==
    Head_(get_cooccurrence_recommendations(cooc, idx, product,
                                           n_recommendations * HybridFactor),
          n_recommendations)

HybridWithoutDeduplication(cooc, psim, idx, product, n_recommendations) ==
    LET co_recs == get_cooccurrence_recommendations(cooc, idx, product,
                                                    n_recommendations * HybridFactor)
        sim_recs == get_similarity_recommendations(psim, idx, product, n_recommendations)
    IN IF Len(co_recs) >= n_recommendations
       THEN Head_(co_recs, n_recommendations)
       ELSE Relabel(Head_(co_recs \o sim_recs, n_recommendations), "hybrid")

HybridLastWins(cooc, psim, idx, product, n_recommendations) ==
    LET co_recs == get_cooccurrence_recommendations(cooc, idx, product,
                                                    n_recommendations * HybridFactor)
        sim_recs == get_similarity_recommendations(psim, idx, product, n_recommendations)
        first == Deduplicate(co_recs \o sim_recs, {})
        all_recs == [i \in DOMAIN first |->
                        IF \E k \in DOMAIN sim_recs : sim_recs[k].product = first[i].product
                        THEN sim_recs[CHOOSE k \in DOMAIN sim_recs :
                                         sim_recs[k].product = first[i].product]
                        ELSE first[i]]
    IN IF Len(co_recs) >= n_recommendations
       THEN Head_(co_recs, n_recommendations)
       ELSE Relabel(Head_(all_recs, n_recommendations), "hybrid")

\* _get_hybrid_recommendations
get_hybrid_recommendations(cooc, psim, idx, product, n_recommendations) ==
    LET co_recs == get_cooccurrence_recommendations(cooc, idx, product,
                                                    n_recommendations * HybridFactor)
        sim_recs == get_similarity_recommendations(psim, idx, product, n_recommendations)
        all_recs == Deduplicate(co_recs \o sim_recs, {})
    IN IF Len(co_recs) >= n_recommendations
       THEN Head_(co_recs, n_recommendations)
       ELSE Relabel(Head_(all_recs, n_recommendations), "hybrid")

Methods == {"similarity", "cooccurrence", "hybrid"}

UnknownProductGetsIndexHead(cooc, psim, idx, product, n_recommendations, method) ==
    IF product \notin DOMAIN psim
    THEN [i \in 1..Min(n_recommendations, Len(idx)) |-> Rec(idx[i], Count(0), method)]
    ELSE IF method = "similarity"
         THEN get_similarity_recommendations(psim, idx, product, n_recommendations)
    ELSE IF method = "cooccurrence"
         THEN get_cooccurrence_recommendations(cooc, idx, product, n_recommendations)
    ELSE get_hybrid_recommendations(cooc, psim, idx, product, n_recommendations)

\* get_product_recommendations
get_product_recommendations(cooc, psim, idx, product, n_recommendations, method) ==
    IF product \notin DOMAIN psim THEN <<>>
    ELSE IF method = "similarity"
         THEN get_similarity_recommendations(psim, idx, product, n_recommendations)
    ELSE IF method = "cooccurrence"
         THEN get_cooccurrence_recommendations(cooc, idx, product, n_recommendations)
    ELSE get_hybrid_recommendations(cooc, psim, idx, product, n_recommendations)

\* get_popular_products: `category` is None or <<name>>; a product without a
\* category (NaN in the Category column) matches no filter; every entry is
\* labelled 'popularity'.
get_popular_products(product_stats, n_products, category) ==
    LET kept == IF category # None
                THEN FilterSeq(product_stats,
                               {st \in Range(product_stats) :
                                   st.Category # None /\ st.Category = category})
                ELSE product_stats
        popular_products == Head_(kept, n_products)
    IN [i \in DOMAIN popular_products |->
          Rec(popular_products[i].Product,
              Count(popular_products[i].TotalTransactions), "popularity")]

\* get_category_recommendations: the rows whose Category equals `category`,
\* in the order of the statistics, labelled 'category_popularity'.
get_category_recommendations(product_stats, category, n_recommendations) ==
    LET category_products ==
            FilterSeq(product_stats,
                      {st \in Range(product_stats) :
                          st.Category # None /\ st.Category = category})
        kept == Head_(category_products, n_recommendations)
    IN [i \in DOMAIN kept |->
          Rec(kept[i].Product, Count(kept[i].TotalTransactions), "category_popularity")]

RECURSIVE DescendingOrders(_, _)
\* Series.sort_values(ascending=False) with the default, unstable kind: the
\* orders of the keys S in which the values val[k] do not increase.
DescendingOrders(S, val) ==
    IF S = {} THEN {<<>>}
    ELSE UNION {{<<m>> \o t : t \in DescendingOrders(S \ {m}, val)} :
                   m \in {x \in S : \A y \in S : ~SimLess(val[x], val[y])}}

RECURSIVE SortDescendingSums(_, _)
\* sorted(..., reverse=True) on sums of similarities: the keys of the sequence
\* idx by value val[k] descending, equal values in idx order.
SortDescendingSums(idx, val) ==
    IF idx = <<>> THEN <<>>
    ELSE LET best == CHOOSE i \in DOMAIN idx :
                        /\ \A j \in DOMAIN idx : ~SimSumLess(val[idx[i]], val[idx[j]])
                        /\ \A j \in 1..(i - 1) : SimSumLess(val[idx[j]], val[idx[i]])
         IN <<idx[best]>> \o
            SortDescendingSums([k \in 1..(Len(idx) - 1) |->
                                   IF k < best THEN idx[k] ELSE idx[k + 1]],
                               val)

RECURSIVE FirstOccurrences(_, _)
\* Keys of a dict filled from the (key, value) pairs `pairs`, in insertion order.
FirstOccurrences(pairs, seen) ==
    IF pairs = <<>> THEN <<>>
    ELSE IF Head(pairs)[1] \in seen THEN FirstOccurrences(Tail(pairs), seen)
    ELSE <<Head(pairs)[1]>> \o FirstOccurrences(Tail(pairs), seen \cup {Head(pairs)[1]})

RECURSIVE Accumulate(_, _)
\* dict[key] += value over the pairs, for one key: the sum of its values.
Accumulate(pairs, key) ==
    IF pairs = <<>> THEN Count(0)
    ELSE LET rest == Accumulate(Tail(pairs), key)
         IN IF Head(pairs)[1] = key THEN SimAdd(Head(pairs)[2], rest) ELSE rest

RECURSIVE Concat(_)
Concat(ss) == IF ss = <<>> THEN <<>> ELSE Head(ss) \o Concat(Tail(ss))

\* sorted(scores.items(), key=score, reverse=True)[:n] as recommendations.
RankScores(pairs, n_recommendations, method) ==
    LET keys == FirstOccurrences(pairs, {})
        scores == [k \in Range(keys) |-> Accumulate(pairs, k)]
        top == Head_(SortDescending(keys, scores), n_recommendations)
    IN [i \in DOMAIN top |-> Rec(top[i], scores[top[i]], method)]

RECURSIVE AccumulateSims(_, _)
\* product_scores[key] += similarity over the pairs, for one key.
AccumulateSims(pairs, key) ==
    IF pairs = <<>> THEN SimSumZero
    ELSE LET rest == AccumulateSims(Tail(pairs), key)
         IN IF Head(pairs)[1] = key THEN SimSumAdd(SimSumOf(Head(pairs)[2]), rest) ELSE rest

\* sorted(product_scores.items(), key=score, reverse=True)[:n] as recommendations,
\* the scores being sums of similarities.
RankSimilaritySums(pairs, n_recommendations, method) ==
    LET keys == FirstOccurrences(pairs, {})
        scores == [k \in Range(keys) |-> AccumulateSims(pairs, k)]
        top == Head_(SortDescendingSums(keys, scores), n_recommendations)
    IN [i \in DOMAIN top |-> Rec(top[i], scores[top[i]], method)]

\* customer_similarity_matrix[customer_id].sort_values(ascending=False): the
\* customers by similarity to customer_id, in every order the sort may give.
customer_similarities(csim, customer_id) ==
    IF customer_id \notin DOMAIN csim THEN {<<>>}
    ELSE DescendingOrders(DOMAIN csim, [o \in DOMAIN csim |-> csim[o][customer_id]])

NeighbourCount == 5

\* similarity < 0.2, with 0.2 = 1 / sqrt(25)
BelowThreshold(similarity) == SimLess(similarity, Sim(1, 25))

Purchased(cpm, customer_id) == {p \in DOMAIN cpm[customer_id] : cpm[customer_id][p] = 1}

NeighbourPairsUncapped(cpm, csim, sorted, idx, customer_id, candidates) ==
    LET neighbours == Drop(sorted, customer_id)
    IN Concat([k \in DOMAIN neighbours |->
                 LET similar_customer == neighbours[k]
                     similarity == csim[similar_customer][customer_id]
                     added == FilterSeq(idx, Purchased(cpm, similar_customer) \cap candidates)
                 IN IF BelowThreshold(similarity) THEN <<>>
                    ELSE [i \in DOMAIN added |-> <<added[i], similarity>>]])

\* The (product, similarity) pairs the neighbour loop of
\* get_customer_recommendations adds to product_scores, in loop order; the
\* products of one neighbour are visited in the order `idx`; `sorted` is the
\* similarity column as sort_values returned it.
NeighbourPairs(cpm, csim, sorted, idx, customer_id, candidates) ==
    LET neighbours == Head_(Drop(sorted, customer_id), NeighbourCount)
    IN Concat([k \in DOMAIN neighbours |->
                 LET similar_customer == neighbours[k]
                     similarity == csim[similar_customer][customer_id]
                     added == FilterSeq(idx, Purchased(cpm, similar_customer) \cap candidates)
                 IN IF BelowThreshold(similarity) THEN <<>>
                    ELSE [i \in DOMAIN added |-> <<added[i], similarity>>]])

CandidatesWithPurchased(cpm, customer_id) == DOMAIN cpm[customer_id]

\* The products get_customer_recommendations may score: those not purchased.
Candidates(cpm, customer_id) == (DOMAIN cpm[customer_id]) \ Purchased(cpm, customer_id)

CustomerFallbackEmpty(cpm, csim, sorted, idx, product_stats, customer_id, n_recommendations) ==
    IF customer_id \notin DOMAIN cpm THEN <<>>
    ELSE RankSimilaritySums(NeighbourPairs(cpm, csim, sorted, idx, customer_id,
                                           Candidates(cpm, customer_id)),
                            n_recommendations, "collaborative")

\* get_customer_recommendations
get_customer_recommendations(cpm, csim, sorted, idx, product_stats, customer_id, n_recommendations) ==
    IF customer_id \notin DOMAIN cpm THEN <<>>
    ELSE LET product_scores == NeighbourPairs(cpm, csim, sorted, idx, customer_id,
                                              Candidates(cpm, customer_id))
         IN IF product_scores = <<>>
            THEN get_popular_products(product_stats, n_recommendations, None)
            ELSE RankSimilaritySums(product_scores, n_recommendations, "collaborative")

BasketCap == 3
PartnerCount == 5

\* The products get_basket_recommendations refuses to recommend: it tests
\* membership in basket_products after the list was cut to its first 3.
BasketExclusion(basket_products) == Range(Head_(basket_products, BasketCap))

BasketPairsWholeList(cooc, idx, basket_products) ==
    Concat([k \in DOMAIN basket_products |->
              IF basket_products[k] \notin DOMAIN cooc THEN <<>>
              ELSE LET cooccurrences ==
                           Head_(Drop(SortDescending(idx, CooccurrenceColumn(cooc, basket_products[k])),
                                      basket_products[k]),
                                 PartnerCount)
                       added == FilterSeq(cooccurrences,
                                          Range(cooccurrences) \ Range(basket_products))
                   IN [i \in DOMAIN added |->
                         <<added[i], Count(cooc[added[i]][basket_products[k]])>>]])

\* The (co_product, count) pairs the loop of get_basket_recommendations adds.
BasketPairs(cooc, idx, basket_products) ==
    LET basket == Head_(basket_products, BasketCap)
    IN Concat([k \in DOMAIN basket |->
                 IF basket[k] \notin DOMAIN cooc THEN <<>>
                 ELSE LET cooccurrences ==
                              Head_(Drop(SortDescending(idx, CooccurrenceColumn(cooc, basket[k])),
                                         basket[k]),
                                    PartnerCount)
                          added == FilterSeq(cooccurrences,
                                             Range(cooccurrences) \ BasketExclusion(basket_products))
                      IN [i \in DOMAIN added |-> <<added[i], Count(cooc[added[i]][basket[k]])>>]])

\* get_basket_recommendations
get_basket_recommendations(cooc, idx, product_stats, basket_products, n_recommendations) ==
    IF basket_products = <<>> THEN <<>>
    ELSE LET all_recommendations == BasketPairs(cooc, idx, basket_products)
         IN IF all_recommendations = <<>>
            THEN get_popular_products(product_stats, n_recommendations, None)
            ELSE RankScores(all_recommendations, n_recommendations, "basket_hybrid")

\* similarity > 0.3, with 0.3 = 3 / sqrt(100)
SimilarityThreshold == Sim(3, 100)

Reason(reason, detail) == [reason |-> reason, detail |-> detail]

ExplainWithoutCooccurrence(cooc, psim, product, recommended_product) ==
    LET by_similarity ==
            IF /\ product \in DOMAIN psim /\ recommended_product \in DOMAIN psim
               /\ SimLess(SimilarityThreshold, psim[product][recommended_product])
            THEN <<Reason("similar purchase patterns",
                          <<psim[product][recommended_product].num,
                            psim[product][recommended_product].den>>)>>
            ELSE <<>>
        by_category ==
            IF product_categories(product) = product_categories(recommended_product)
            THEN <<Reason("same category", product_categories(product))>>
            ELSE <<>>
        explanations == by_similarity \o by_category
    IN IF explanations # <<>> THEN explanations
       ELSE <<Reason("general popularity", <<>>)>>

ExplainCategoryOfKnownOnly(cooc, psim, product, recommended_product) ==
    LET by_cooccurrence ==
            IF /\ product \in DOMAIN cooc /\ recommended_product \in DOMAIN cooc
               /\ cooc[product][recommended_product] > 0
            THEN <<Reason("bought together", <<cooc[product][recommended_product]>>)>>
            ELSE <<>>
        by_similarity ==
            IF /\ product \in DOMAIN psim /\ recommended_product \in DOMAIN psim
               /\ SimLess(SimilarityThreshold, psim[product][recommended_product])
            THEN <<Reason("similar purchase patterns",
                          <<psim[product][recommended_product].num,
                            psim[product][recommended_product].den>>)>>
            ELSE <<>>
        by_category ==
            IF /\ product_categories(product) # None
               /\ product_categories(product) = product_categories(recommended_product)
            THEN <<Reason("same category", product_categories(product))>>
            ELSE <<>>
        explanations == by_cooccurrence \o by_similarity \o by_category
    IN IF explanations # <<>> THEN explanations
       ELSE <<Reason("general popularity", <<>>)>>

\* explain_recommendation: the reasons in the order the code appends them.  A
\* reason stands for its sentence; `detail` is the value the sentence quotes
\* (count, similarity before rounding to two decimals, optional category).
explain_recommendation(cooc, psim, product, recommended_product) ==
    LET by_cooccurrence ==
            IF /\ product \in DOMAIN cooc /\ recommended_product \in DOMAIN cooc
               /\ cooc[product][recommended_product] > 0
            THEN <<Reason("bought together", <<cooc[product][recommended_product]>>)>>
            ELSE <<>>
        by_similarity ==
            IF /\ product \in DOMAIN psim /\ recommended_product \in DOMAIN psim
               /\ SimLess(SimilarityThreshold, psim[product][recommended_product])
            THEN <<Reason("similar purchase patterns",
                          <<psim[product][recommended_product].num,
                            psim[product][recommended_product].den>>)>>
            ELSE <<>>
        by_category ==
            \* categories.get(product) == categories.get(recommended_product):
            \* two absent entries are both None, and equal
            IF product_categories(product) = product_categories(recommended_product)
            THEN <<Reason("same category", product_categories(product))>>
            ELSE <<>>
        explanations == by_cooccurrence \o by_similarity \o by_category
    IN IF explanations # <<>> THEN explanations
       ELSE <<Reason("general popularity", <<>>)>>

---------------------------------------------------------------------------
\* The state machine.

NoResult == [op |-> "none", arg |-> <<>>, n |-> 0, ret |-> <<>>]

StatsRecomputed(cache, d) == compute_product_stats(d)

\* get_product_stats under @lru_cache(maxsize=1): computed on the first call,
\* answered from the cache afterwards.  The set of frames a call may return.
get_product_stats(cache, d) == IF cache # None THEN {cache} ELSE compute_product_stats(d)

InitWith(files) ==
    /\ file \in files
    /\ df = None
    /\ product_stats_cache = None
    /\ customer_product_matrix = None
    /\ product_cooccurrence_matrix = None
    /\ unique_products = None
    /\ product_similarity_matrix = None
    /\ customer_similarity_matrix = None
    /\ svd_model = None
    /\ status = "new"
    /\ result = NoResult

\* The data file is absent from the data directory.
NoFile == None

\* DataProcessor.load_data; it raises FileNotFoundError when the file is absent.
LoadData ==
    /\ result = NoResult
    /\ IF file = NoFile
       THEN /\ status' = "load_failed"
            /\ UNCHANGED df
       ELSE /\ df' = load_data(file)
            /\ UNCHANGED status
    /\ UNCHANGED <<file, product_stats_cache, customer_product_matrix,
                   product_cooccurrence_matrix, unique_products,
                   product_similarity_matrix, customer_similarity_matrix,
                   svd_model, result>>

\* main() of the application goes on to the pages that issue queries only
\* when its load_data(), which loads the data and fits the engine inside a
\* try block, returned the objects; otherwise it stops.
QueryReachableAfterFailure == status # "new"

QueryReachable == status = "fitted"

\* FreshCartRecommender.fit.  The matrices are assigned in the order of the
\* code, so a fit that raises leaves the ones assigned before the failure.
Fit ==
    /\ result = NoResult
    /\ IF df = None /\ file = NoFile
       THEN \* load_data, called by get_customer_product_matrix, raises
            /\ status' = "fit_failed"
            /\ UNCHANGED <<df, customer_product_matrix, product_cooccurrence_matrix,
                           unique_products, product_similarity_matrix,
                           customer_similarity_matrix, svd_model>>
       ELSE
       LET d == IF df = None THEN load_data(file) ELSE df
           cpm == get_customer_product_matrix(d)
           cooc == get_product_cooccurrence_matrix(d)
       IN /\ df' = d
          /\ customer_product_matrix' = cpm
          /\ product_cooccurrence_matrix' = cooc
          /\ \E order \in Permutations_(ProductsOf(d)) :
                /\ (unique_products # None /\ Range(unique_products) = ProductsOf(d))
                      => order = unique_products
                /\ unique_products' = order
          /\ IF NormalizationHasNaN(cooc)
             THEN /\ status' = "fit_failed"
                  /\ UNCHANGED <<product_similarity_matrix, customer_similarity_matrix,
                                 svd_model>>
             ELSE /\ product_similarity_matrix' = cosine_similarity(cooc)
                  /\ customer_similarity_matrix' = cosine_similarity(cpm)
                  /\ svd_model' = [n_components |-> SvdComponents(cpm)]
                  /\ IF SvdComponents(cpm) >= 1
                     THEN status' = "fitted"
                     ELSE \* n_components = 0: accepted or rejected by
                          \* TruncatedSVD.fit depending on the scikit-learn release
                          status' \in {"fitted", "fit_failed"}
    /\ UNCHANGED <<file, product_stats_cache, result>>

Ns == 0..MaxN

ProductQuery ==
    /\ QueryReachable /\ result = NoResult
    /\ \E product \in Products, n \in Ns, method \in Methods :
          result' = [op |-> "product", arg |-> <<product, method>>, n |-> n,
                     ret |-> get_product_recommendations(
                                 product_cooccurrence_matrix, product_similarity_matrix,
                                 unique_products, product, n, method)]
    /\ UNCHANGED <<file, df, product_stats_cache, customer_product_matrix,
                   product_cooccurrence_matrix, unique_products,
                   product_similarity_matrix, customer_similarity_matrix,
                   svd_model, status>>

\* Does get_customer_recommendations reach its call of get_popular_products?
CustomerFallsBack(sorted, customer_id) ==
    /\ customer_id \in DOMAIN customer_product_matrix
    /\ NeighbourPairs(customer_product_matrix, customer_similarity_matrix, sorted,
                      unique_products, customer_id,
                      Candidates(customer_product_matrix, customer_id)) = <<>>

CustomerQueryOver(customers) ==
    /\ QueryReachable /\ result = NoResult
    /\ \E customer_id \in customers, n \in Ns :
          \E stats \in get_product_stats(product_stats_cache, df),
             sorted \in customer_similarities(customer_similarity_matrix, customer_id) :
             /\ result' = [op |-> "customer", arg |-> <<customer_id>>, n |-> n,
                           ret |-> get_customer_recommendations(
                                       customer_product_matrix, customer_similarity_matrix,
                                       sorted, unique_products, stats, customer_id, n)]
             /\ product_stats_cache' =
                   IF CustomerFallsBack(sorted, customer_id) THEN stats
                   ELSE product_stats_cache
    /\ UNCHANGED <<file, df, customer_product_matrix,
                   product_cooccurrence_matrix, unique_products,
                   product_similarity_matrix, customer_similarity_matrix,
                   svd_model, status>>

CustomerQuery == CustomerQueryOver(Customers)

\* The lists the basket page passes: a selection of distinct catalog products.
BasketLists ==
    {b \in UNION {[1..k -> CatalogProducts] : k \in 0..MaxBasketLen} :
        \A i, j \in DOMAIN b : i # j => b[i] # b[j]}

BasketFallsBack(basket_products) ==
    /\ basket_products # <<>>
    /\ BasketPairs(product_cooccurrence_matrix, unique_products, basket_products) = <<>>

\* get_basket_recommendations, called with one of `lists`.
BasketQueryOver(lists) ==
    /\ QueryReachable /\ result = NoResult
    /\ \E basket_products \in lists, n \in Ns :
          \E stats \in get_product_stats(product_stats_cache, df) :
             /\ result' = [op |-> "basket", arg |-> basket_products, n |-> n,
                           ret |-> get_basket_recommendations(
                                       product_cooccurrence_matrix, unique_products,
                                       stats, basket_products, n)]
             /\ product_stats_cache' =
                   IF BasketFallsBack(basket_products) THEN stats ELSE product_stats_cache
    /\ UNCHANGED <<file, df, customer_product_matrix,
                   product_cooccurrence_matrix, unique_products,
                   product_similarity_matrix, customer_similarity_matrix,
                   svd_model, status>>

BasketQuery == BasketQueryOver(BasketLists)

\* Short selections of products that may be in the transactions.
ShortBasketLists ==
    {b \in UNION {[1..k -> Products] : k \in 1..MaxBasketLenWide} :
        \A i, j \in DOMAIN b : i # j => b[i] # b[j]}

ShortBasketQuery == BasketQueryOver(ShortBasketLists)

Categories == {None, <<"Pantry">>, <<"Beverages">>}

PopularQuery ==
    /\ QueryReachable /\ result = NoResult
    /\ \E n \in Ns, category \in Categories :
          \E stats \in get_product_stats(product_stats_cache, df) :
             /\ result' = [op |-> "popular", arg |-> category, n |-> n,
                           ret |-> get_popular_products(stats, n, category)]
             /\ product_stats_cache' = stats
    /\ UNCHANGED <<file, df, customer_product_matrix,
                   product_cooccurrence_matrix, unique_products,
                   product_similarity_matrix, customer_similarity_matrix,
                   svd_model, status>>

CategoryQuery ==
    /\ QueryReachable /\ result = NoResult
    /\ \E n \in Ns, category \in Categories :
          \E stats \in get_product_stats(product_stats_cache, df) :
             /\ result' = [op |-> "category", arg |-> category, n |-> n,
                           ret |-> get_category_recommendations(stats, category, n)]
             /\ product_stats_cache' = stats
    /\ UNCHANGED <<file, df, customer_product_matrix,
                   product_cooccurrence_matrix, unique_products,
                   product_similarity_matrix, customer_similarity_matrix,
                   svd_model, status>>

\* The transaction file is replaced by a longer one: a purchase is recorded
\* after the rows already there.
AppendTransaction ==
    /\ result = NoResult
    /\ file # NoFile
    /\ Len(file) < MaxRowsReload
    /\ \E r \in Rows :
          /\ RowRank(file[Len(file)]) <= RowRank(r)
          /\ file' = Append(file, r)
    /\ UNCHANGED <<df, product_stats_cache, customer_product_matrix,
                   product_cooccurrence_matrix, unique_products,
                   product_similarity_matrix, customer_similarity_matrix,
                   svd_model, status, result>>

ExplainQuery ==
    /\ QueryReachable /\ result = NoResult
    /\ \E product \in ExplainProducts, recommended_product \in ExplainProducts :
          result' = [op |-> "explain", arg |-> <<product, recommended_product>>, n |-> 0,
                     ret |-> explain_recommendation(
                                 product_cooccurrence_matrix, product_similarity_matrix,
                                 product, recommended_product)]
    /\ UNCHANGED <<file, df, product_stats_cache, customer_product_matrix,
                   product_cooccurrence_matrix, unique_products,
                   product_similarity_matrix, customer_similarity_matrix,
                   svd_model, status>>

\* The caller takes the returned list; the engine is ready for the next call.
Return ==
    /\ result # NoResult
    /\ result' = NoResult
    /\ UNCHANGED <<file, df, product_stats_cache, customer_product_matrix,
                   product_cooccurrence_matrix, unique_products,
                   product_similarity_matrix, customer_similarity_matrix,
                   svd_model, status>>

Init == InitWith(Files(MaxRows))

Next ==
    \/ LoadData
    \/ Fit
    \/ ProductQuery
    \/ CustomerQuery
    \/ PopularQuery
    \/ Return

Spec == Init /\ [][Next]_vars

\* Customer 1 buys Milk and Bread on day 1 and Milk and Eggs on day 2,
\* customer 2 buys Milk and Bread on day 1 (Milk is "A", Bread "B", Eggs "C").
Fixture ==
    <<[CustomerID |-> 1, Date |-> 1, Product |-> "A"],
      [CustomerID |-> 1, Date |-> 1, Product |-> "B"],
      [CustomerID |-> 1, Date |-> 2, Product |-> "A"],
      [CustomerID |-> 1, Date |-> 2, Product |-> "C"],
      [CustomerID |-> 2, Date |-> 1, Product |-> "A"],
      [CustomerID |-> 2, Date |-> 1, Product |-> "B"]>>

\* The basket strategy, over shorter files and the basket lists.
InitBasket == InitWith(Files(MaxRowsBasket) \cup {Fixture})

NextBasket ==
    \/ LoadData
    \/ Fit
    \/ BasketQuery
    \/ Return

SpecBasket == InitBasket /\ [][NextBasket]_vars

\* The popularity and category lists and the explanations.
NextCatalog ==
    \/ LoadData
    \/ Fit
    \/ PopularQuery
    \/ CategoryQuery
    \/ ExplainQuery
    \/ Return

\* The catalog pages over the files of Init and over a file with two
\* products that have no category entry: C is bought with A on day 1, E with
\* B on day 2.
TwoUncategorised ==
    <<[CustomerID |-> 1, Date |-> 1, Product |-> "A"],
      [CustomerID |-> 1, Date |-> 1, Product |-> "C"],
      [CustomerID |-> 1, Date |-> 2, Product |-> "B"],
      [CustomerID |-> 1, Date |-> 2, Product |-> "E"]>>

InitCatalog == InitWith(Files(MaxRows) \cup {TwoUncategorised})

SpecCatalog == InitCatalog /\ [][NextCatalog]_vars

\* The basket strategy over the longer files, with short basket lists.
NextBasketWide ==
    \/ LoadData
    \/ Fit
    \/ ShortBasketQuery
    \/ Return

SpecBasketWide == Init /\ [][NextBasketWide]_vars

\* Re-loading: the file changes under a living engine, which is loaded and
\* fitted again.  The files start with the purchases of one basket.
InitReload ==
    InitWith({f \in Files(MaxRowsReload - 1) :
                \A i \in DOMAIN f : f[i].CustomerID = 1 /\ f[i].Date = 1})

NextReload ==
    \/ AppendTransaction
    \/ LoadData
    \/ Fit
    \/ ProductQuery
    \/ CustomerQuery
    \/ PopularQuery
    \/ Return

SpecReload == InitReload /\ [][NextReload]_vars

\* The application: the data file may be absent, and every kind of query
\* may follow a successful load and fit; the three-basket file is one of the
\* files.
InitApp == InitWith(Files(MaxRowsBasket) \cup {NoFile, Fixture})

NextApp ==
    \/ LoadData
    \/ Fit
    \/ ProductQuery
    \/ CustomerQuery
    \/ BasketQuery
    \/ PopularQuery
    \/ CategoryQuery
    \/ ExplainQuery
    \/ Return

SpecApp == InitApp /\ [][NextApp]_vars

\* The data processor over files whose rows are in any order, and over the
\* three-basket file.
FilesAnyOrder(maxrows) == UNION {[1..k -> Rows] : k \in 1..maxrows}

InitAnyOrder == InitWith(FilesAnyOrder(MaxRowsAnyOrder) \cup {Fixture})

NextAnyOrder ==
    \/ LoadData
    \/ Fit

SpecAnyOrder == InitAnyOrder /\ [][NextAnyOrder]_vars

\* The collaborative strategy over three customers with one basket each, and
\* over two larger files.  ThreeNorms: customer 1 buys A, customer 2 buys A
\* and B, customer 3 buys A, B and C.  SevenCustomers: customer 1 buys A,
\* customers 2 to 6 buy A and B, customer 7 buys A, B and C.
NeighbourCustomers == {1, 2, 3}

NeighbourRows ==
    {[CustomerID |-> c, Date |-> 1, Product |-> p] : c \in NeighbourCustomers, p \in Products}

FilesNeighbours(maxrows) ==
    {f \in UNION {[1..k -> NeighbourRows] : k \in 1..maxrows} :
        \A i \in 1..(Len(f) - 1) : RowRank(f[i]) <= RowRank(f[i + 1])}

ThreeNorms ==
    <<[CustomerID |-> 1, Date |-> 1, Product |-> "A"],
      [CustomerID |-> 2, Date |-> 1, Product |-> "A"],
      [CustomerID |-> 2, Date |-> 1, Product |-> "B"],
      [CustomerID |-> 3, Date |-> 1, Product |-> "A"],
      [CustomerID |-> 3, Date |-> 1, Product |-> "B"],
      [CustomerID |-> 3, Date |-> 1, Product |-> "C"]>>

SevenCustomers ==
    <<[CustomerID |-> 1, Date |-> 1, Product |-> "A"]>> \o
    Concat([k \in 1..5 |-> <<[CustomerID |-> k + 1, Date |-> 1, Product |-> "A"],
                             [CustomerID |-> k + 1, Date |-> 1, Product |-> "B"]>>]) \o
    <<[CustomerID |-> 7, Date |-> 1, Product |-> "A"],
      [CustomerID |-> 7, Date |-> 1, Product |-> "B"],
      [CustomerID |-> 7, Date |-> 1, Product |-> "C"]>>

InitNeighbours ==
    InitWith(FilesNeighbours(MaxRowsNeighbours) \cup {ThreeNorms, SevenCustomers})

NeighbourQuery == CustomerQueryOver(NeighbourCustomers)

NextNeighbours ==
    \/ LoadData
    \/ Fit
    \/ NeighbourQuery
    \/ Return

SpecNeighbours == InitNeighbours /\ [][NextNeighbours]_vars

---------------------------------------------------------------------------
\* Properties.

CoocBuilt == product_cooccurrence_matrix # None

IsProductQuery(method) ==
    /\ result.op = "product"
    /\ result.arg[2] = method
    /\ result.arg[1] \in DOMAIN product_similarity_matrix

\* The products and scores of a list, without the method labels.
Unlabelled(recs) == [i \in DOMAIN recs |-> <<recs[i].product, recs[i].score>>]

\* Number of baskets of d that contain both a and b.
BasketsWithBoth(d, a, b) ==
    LET baskets == get_basket_data(d)
    IN Cardinality({k \in DOMAIN baskets :
                       a \in Range(baskets[k].Products) /\ b \in Range(baskets[k].Products)})

\* Number of other products with a positive co-occurrence count with p.
PositivePartners(p) ==
    Cardinality({q \in (DOMAIN product_cooccurrence_matrix) \ {p} :
                    product_cooccurrence_matrix[q][p] > 0})

\* C1: the co-occurrence matrix built by get_product_cooccurrence_matrix is
\* symmetric, cooc[a][b] = cooc[b][a] for all products of its index, also
\* when a basket lists a product more than once.
C1_CoocSymmetric ==
    CoocBuilt =>
        \A a, b \in DOMAIN product_cooccurrence_matrix :
            product_cooccurrence_matrix[a][b] = product_cooccurrence_matrix[b][a]

\* A matrix built from a basket that repeats a product next to another one.
C1_Witness ==
    /\ CoocBuilt
    /\ \E a, b \in DOMAIN product_cooccurrence_matrix :
          /\ a # b
          /\ product_cooccurrence_matrix[a][a] > 0
          /\ product_cooccurrence_matrix[a][b] >= 2

\* C2: the co-occurrence matrix has a zero diagonal, cooc[p][p] = 0 for
\* every product, also when a basket holds two rows for the same product.
C2_CoocZeroDiagonal ==
    CoocBuilt =>
        \A p \in DOMAIN product_cooccurrence_matrix : product_cooccurrence_matrix[p][p] = 0

\* C3: for distinct products a and b, cooc[a][b] is the number of baskets
\* that contain both, however often a or b repeats inside a basket.
C3_CoocCountsBaskets ==
    CoocBuilt =>
        \A a, b \in DOMAIN product_cooccurrence_matrix :
            a # b => product_cooccurrence_matrix[a][b] = BasketsWithBoth(df, a, b)

\* C4: a product of the matrices never appears in the list that
\* get_product_recommendations returns for it, for each of the three methods.
C4_NeverRecommendsItself ==
    result.op = "product" => result.arg[1] \notin ProductsIn(result.ret)

\* Each method has returned a list of two products for a known product.
C4_Witness ==
    /\ result.op = "product"
    /\ result.arg[1] \in DOMAIN product_similarity_matrix
    /\ Len(result.ret) >= 2

\* C5: whenever the co-occurrence strategy for (p, n) returns n entries, the
\* hybrid strategy for (p, n) returns the same products in the same order
\* with the same scores.
C5_HybridEqualsCooccurrence ==
    IsProductQuery("hybrid") =>
        LET co == get_cooccurrence_recommendations(product_cooccurrence_matrix,
                                                   unique_products, result.arg[1], result.n)
        IN Len(co) = result.n => Unlabelled(result.ret) = Unlabelled(co)

C5_Witness ==
    /\ IsProductQuery("hybrid")
    /\ result.n = 2
    /\ Len(get_cooccurrence_recommendations(product_cooccurrence_matrix, unique_products,
                                            result.arg[1], result.n)) = 2
    /\ Len(result.ret) = 2

\* C6: every entry the hybrid strategy returns has method 'hybrid', both when
\* co-occurrence alone supplies n results and when similarity results are merged in.
C6_HybridLabel ==
    IsProductQuery("hybrid") =>
        \A i \in DOMAIN result.ret : result.ret[i].method = "hybrid"

\* C7: for a known product p and n >= 0 the hybrid strategy returns exactly
\* min(n, K) entries, K the number of products other than p in the index.
C7_HybridLength ==
    IsProductQuery("hybrid") =>
        Len(result.ret) =
            Min(result.n, Cardinality((DOMAIN product_similarity_matrix) \ {result.arg[1]}))

\* The merge path: co-occurrence gave one product, similarity supplied the second.
C7_Witness ==
    /\ IsProductQuery("hybrid")
    /\ result.n = 2
    /\ PositivePartners(result.arg[1]) = 1
    /\ Len(result.ret) = 2

\* C8: get_basket_recommendations with an empty basket list returns the
\* global popularity list truncated to n, the list of get_popular_products(n).
C8_EmptyBasketIsPopularity ==
    (result.op = "basket" /\ result.arg = <<>>) =>
        \E stats \in compute_product_stats(df) :
            result.ret = get_popular_products(stats, result.n, None)

\* C9: no entry labelled 'basket_hybrid' that get_basket_recommendations
\* returns is a product of the input basket list, at any position.
C9_BasketExcludesInput ==
    result.op = "basket" =>
        \A i \in DOMAIN result.ret :
            result.ret[i].method = "basket_hybrid" =>
                result.ret[i].product \notin Range(result.arg)

\* C10, as claimed: get_customer_recommendations never returns a product the
\* customer has purchased, on any path, the popularity fallback included.
C10_NeverPurchased ==
    (result.op = "customer" /\ result.arg[1] \in DOMAIN customer_product_matrix) =>
        \A i \in DOMAIN result.ret :
            result.ret[i].product \notin Purchased(customer_product_matrix, result.arg[1])

\* C10, amended: every entry get_customer_recommendations returns with method
\* 'collaborative' is a product the customer has not purchased.
C10_CollaborativeNeverPurchased ==
    (result.op = "customer" /\ result.arg[1] \in DOMAIN customer_product_matrix) =>
        \A i \in DOMAIN result.ret :
            result.ret[i].method = "collaborative" =>
                result.ret[i].product \notin Purchased(customer_product_matrix, result.arg[1])

\* A neighbour's product was recommended to a customer who also has purchases
\* in common with that neighbour.
C10_Witness ==
    /\ result.op = "customer"
    /\ result.arg[1] \in DOMAIN customer_product_matrix
    /\ result.ret # <<>>
    /\ \A i \in DOMAIN result.ret : result.ret[i].method = "collaborative"
    /\ \E o \in DOMAIN customer_product_matrix :
          /\ o # result.arg[1]
          /\ Purchased(customer_product_matrix, o)
                \cap Purchased(customer_product_matrix, result.arg[1]) # {}

\* Has another customer a similarity of at least 0.2 to customer_id and a
\* product customer_id has not bought?  (With at most six customers every
\* other customer is among the five most similar ones.)
NeighbourYieldsCandidate(customer_id) ==
    \E o \in (DOMAIN customer_product_matrix) \ {customer_id} :
        /\ ~BelowThreshold(customer_similarity_matrix[o][customer_id])
        /\ Purchased(customer_product_matrix, o)
              \ Purchased(customer_product_matrix, customer_id) # {}

\* C11: for a known customer whose neighbours yield no candidate product,
\* get_customer_recommendations returns the list get_popular_products(n)
\* returns, every entry labelled 'popularity'.
C11_FallbackIsPopularity ==
    (/\ result.op = "customer"
     /\ result.arg[1] \in DOMAIN customer_product_matrix
     /\ ~NeighbourYieldsCandidate(result.arg[1])) =>
        /\ product_stats_cache \in compute_product_stats(df)
        /\ result.ret = get_popular_products(product_stats_cache, result.n, None)
        /\ \A i \in DOMAIN result.ret : result.ret[i].method = "popularity"

\* The other customer has products to offer but is not similar enough.
C11_Witness ==
    /\ result.op = "customer"
    /\ result.arg[1] \in DOMAIN customer_product_matrix
    /\ ~NeighbourYieldsCandidate(result.arg[1])
    /\ \E o \in (DOMAIN customer_product_matrix) \ {result.arg[1]} :
          Purchased(customer_product_matrix, o)
             \ Purchased(customer_product_matrix, result.arg[1]) # {}
    /\ result.n = 2
    /\ Len(result.ret) = 2

\* C12: on a fitted engine a product query for a product that is in no
\* transaction, and a customer query for a customer who is in none, return the
\* empty list, and the engine stays fitted (nothing is raised).
C12_UnknownReturnsEmpty ==
    /\ (result.op = "product" /\ result.arg[1] \notin ProductsOf(df)) =>
          (result.ret = <<>> /\ status = "fitted")
    /\ (result.op = "customer" /\ result.arg[1] \notin CustomersOf(df)) =>
          (result.ret = <<>> /\ status = "fitted")

\* Two products are known and two recommendations are asked for a third one.
C12_Witness ==
    /\ result.op = "product"
    /\ result.arg[1] \notin ProductsOf(df)
    /\ Cardinality(ProductsOf(df)) = 2
    /\ result.n = 2
    /\ result.ret = <<>>

AllLabelled(recs, method) == \A i \in DOMAIN recs : recs[i].method = method

\* C13: the popularity strategy labels its entries 'popularity' when no
\* category is given and 'category_popularity' when a category filter is
\* applied, both in get_popular_products(n, category) and in
\* get_category_recommendations.
C13_PopularityLabels ==
    /\ (result.op = "popular" /\ result.arg = None) => AllLabelled(result.ret, "popularity")
    /\ (result.op = "popular" /\ result.arg # None) =>
          AllLabelled(result.ret, "category_popularity")
    /\ result.op = "category" => AllLabelled(result.ret, "category_popularity")

IsPopularityList == result.op \in {"popular", "category"}

\* C14: a popularity list is in non-increasing order of transaction count,
\* holds only products of the requested category when one is given, and
\* lists products with equal counts in the order of their names.
C14_PopularitySorted ==
    IsPopularityList =>
        /\ \A i, j \in DOMAIN result.ret :
              i < j => result.ret[i].score.num >= result.ret[j].score.num
        /\ result.arg # None =>
              \A i \in DOMAIN result.ret : product_categories(result.ret[i].product) = result.arg
        /\ \A i, j \in DOMAIN result.ret :
              (i < j /\ result.ret[i].score = result.ret[j].score) =>
                  ProductRank(result.ret[i].product) < ProductRank(result.ret[j].product)

\* No product of the basket (as used: its first BasketCap entries) that is in
\* the matrix co-occurs with a product outside the basket.
ZeroOutside(basket_products) ==
    \A p \in Range(Head_(basket_products, BasketCap)) \cap DOMAIN product_cooccurrence_matrix :
        \A q \in (DOMAIN product_cooccurrence_matrix) \ Range(basket_products) :
            product_cooccurrence_matrix[q][p] = 0

\* C15: when the basket's products co-occur with no product outside the
\* basket, get_basket_recommendations returns the popularity list; no entry
\* labelled 'basket_hybrid' has score 0.
C15_ZeroCooccurrenceFallsBack ==
    result.op = "basket" =>
        /\ (result.arg # <<>> /\ ZeroOutside(result.arg)) =>
              \E stats \in compute_product_stats(df) :
                  result.ret = get_popular_products(stats, result.n, None)
        /\ \A i \in DOMAIN result.ret :
              result.ret[i].method = "basket_hybrid" => result.ret[i].score.num > 0

ZeroTotalProducts ==
    {p \in DOMAIN product_cooccurrence_matrix : RowSum(product_cooccurrence_matrix, p) = 0}

\* C16: a fit over transactions in which some product has a total
\* co-occurrence count of 0 completes, and that product's normalised row is the
\* zero vector: its similarity to every product is 0.
C16_FitCompletesOnZeroTotal ==
    (CoocBuilt /\ ZeroTotalProducts # {}) =>
        /\ status = "fitted"
        /\ \A p \in ZeroTotalProducts, q \in DOMAIN product_similarity_matrix :
              product_similarity_matrix[p][q].num = 0

\* The engine was loaded and fitted on the file as it is now.
FittedOnCurrentFile ==
    /\ status = "fitted"
    /\ df = load_data(file)
    /\ customer_product_matrix = get_customer_product_matrix(df)
    /\ product_cooccurrence_matrix = get_product_cooccurrence_matrix(df)
    /\ product_similarity_matrix = cosine_similarity(product_cooccurrence_matrix)
    /\ customer_similarity_matrix = cosine_similarity(customer_product_matrix)

\* C17: once the changed file was loaded and the engine fitted again, every
\* answer, the popularity list included, is the one computed from the new
\* transactions.
C17_AnswersFromNewData ==
    FittedOnCurrentFile =>
        /\ result.op = "popular" =>
              \E stats \in compute_product_stats(load_data(file)) :
                  result.ret = get_popular_products(stats, result.n, result.arg)
        /\ result.op = "customer" =>
              \E stats \in compute_product_stats(load_data(file)),
                 sorted \in customer_similarities(customer_similarity_matrix, result.arg[1]) :
                  result.ret = get_customer_recommendations(
                                   customer_product_matrix, customer_similarity_matrix,
                                   sorted, unique_products, stats, result.arg[1], result.n)
        /\ result.op = "product" =>
              result.ret = get_product_recommendations(
                               product_cooccurrence_matrix, product_similarity_matrix,
                               unique_products, result.arg[1], result.n, result.arg[2])

\* The list the query recorded in `r` gets from the matrices and the cached
\* statistics of the current state (with two customers there is one neighbour
\* at most, so the order of the similarity column makes no difference).
Answer(r) ==
    CASE r.op = "product" ->
            get_product_recommendations(product_cooccurrence_matrix, product_similarity_matrix,
                                        unique_products, r.arg[1], r.n, r.arg[2])
      [] r.op = "customer" ->
            get_customer_recommendations(
                customer_product_matrix, customer_similarity_matrix,
                CHOOSE sorted \in customer_similarities(customer_similarity_matrix, r.arg[1]) : TRUE,
                unique_products, product_stats_cache, r.arg[1], r.n)
      [] r.op = "basket" ->
            get_basket_recommendations(product_cooccurrence_matrix, unique_products,
                                       product_stats_cache, r.arg, r.n)
      [] r.op = "popular" -> get_popular_products(product_stats_cache, r.n, r.arg)
      [] r.op = "category" -> get_category_recommendations(product_stats_cache, r.arg, r.n)
      [] r.op = "explain" ->
            explain_recommendation(product_cooccurrence_matrix, product_similarity_matrix,
                                   r.arg[1], r.arg[2])

QueryStep == result = NoResult /\ result' # NoResult

C19_NoQueryUnlessFitted ==
    result # NoResult =>
        /\ status = "fitted"
        /\ df # None
        /\ customer_product_matrix # None
        /\ product_cooccurrence_matrix # None
        /\ product_similarity_matrix # None
        /\ customer_similarity_matrix # None
        /\ svd_model # None

\* fit raised after the count matrices were assigned; no query follows.
C19_Witness ==
    /\ status = "fit_failed"
    /\ product_cooccurrence_matrix # None
    /\ product_similarity_matrix = None
    /\ result = NoResult

\* The conditions of the three reasons, for the pair (a, b).
CooccurrenceApplies(a, b) ==
    /\ a \in DOMAIN product_cooccurrence_matrix
    /\ b \in DOMAIN product_cooccurrence_matrix
    /\ product_cooccurrence_matrix[a][b] > 0

\* num / sqrt(den) > 3 / 10
SimilarityApplies(a, b) ==
    /\ a \in DOMAIN product_similarity_matrix
    /\ b \in DOMAIN product_similarity_matrix
    /\ LET s == product_similarity_matrix[a][b]
       IN s.num > 0 /\ 100 * s.num * s.num > 9 * s.den

\* The category table gives the same value for both, None for a missing entry.
CategoryApplies(a, b) == product_categories(a) = product_categories(b)

ReasonKinds(ret) == [i \in DOMAIN ret |-> ret[i].reason]

\* C20: explain_recommendation returns a non-empty list with the reasons in
\* the order co-occurrence, similarity, category, each present exactly when its
\* condition holds, and the generic reason alone exactly when none holds.
C20_ExplainReasons ==
    result.op = "explain" =>
        LET a == result.arg[1]
            b == result.arg[2]
            expected ==
                (IF CooccurrenceApplies(a, b) THEN <<"bought together">> ELSE <<>>)
                \o (IF SimilarityApplies(a, b) THEN <<"similar purchase patterns">> ELSE <<>>)
                \o (IF CategoryApplies(a, b) THEN <<"same category">> ELSE <<>>)
        IN /\ result.ret # <<>>
           /\ ReasonKinds(result.ret) =
                 IF expected = <<>> THEN <<"general popularity">> ELSE expected

\* Two products of different categories that were bought together and have
\* similar partners: two reasons, co-occurrence first.
C20_Witness ==
    /\ result.op = "explain"
    /\ ReasonKinds(result.ret) = <<"bought together", "similar purchase patterns">>

SimilarityBuilt == status = "fitted" /\ product_similarity_matrix # None

\* C21: after a fit that succeeded the product similarity matrix is
\* symmetric: sim[a][b] = sim[b][a] for all products a, b.
C21_SimilaritySymmetric ==
    SimilarityBuilt =>
        \A a, b \in DOMAIN product_similarity_matrix :
            product_similarity_matrix[a][b] = product_similarity_matrix[b][a]

\* Two products whose rows have different norms and a similarity strictly
\* between 0 and 1.
C21_Witness ==
    /\ SimilarityBuilt
    /\ \E a, b \in DOMAIN product_similarity_matrix :
          /\ a # b
          /\ Dot(product_cooccurrence_matrix[a], product_cooccurrence_matrix[a])
                # Dot(product_cooccurrence_matrix[b], product_cooccurrence_matrix[b])
          /\ product_similarity_matrix[a][b].num > 0
          /\ product_similarity_matrix[a][b] # Sim(1, 1)

\* C22: every product of the index has a computed self-similarity of 1.0 in
\* the fitted product similarity matrix, a product whose co-occurrence row is
\* all zeros included: once the co-occurrence matrix is built, the similarity
\* matrix exists and its diagonal is 1 for each product of the index.
C22_SelfSimilarityOne ==
    CoocBuilt =>
        \A p \in DOMAIN product_cooccurrence_matrix :
            /\ product_similarity_matrix # None
            /\ p \in DOMAIN product_similarity_matrix
            /\ product_similarity_matrix[p][p] = Sim(1, 1)

KeyOf(r) == <<r.CustomerID, r.Date>>

\* The products of the rows of d with key k, in the order of the rows.
ProductsInRowOrder(d, k) ==
    LET rows == SelectSeq(d, LAMBDA r : KeyOf(r) = k)
    IN [j \in DOMAIN rows |-> rows[j].Product]

\* C23: get_basket_data partitions the rows by (customer, date): every row is
\* in exactly one basket, a basket lists its group's products in row order
\* with duplicates kept, BasketSize is the length of that list, no basket is
\* empty, and the sizes add up to the number of rows.
C23_BasketsPartitionRows ==
    CoocBuilt =>
        LET baskets == get_basket_data(df)
        IN /\ \A i \in DOMAIN df :
                 Cardinality({b \in DOMAIN baskets :
                                 <<baskets[b].CustomerID, baskets[b].Date>> = KeyOf(df[i])}) = 1
           /\ \A b \in DOMAIN baskets :
                 /\ baskets[b].Products =
                       ProductsInRowOrder(df, <<baskets[b].CustomerID, baskets[b].Date>>)
                 /\ baskets[b].BasketSize = Len(baskets[b].Products)
                 /\ baskets[b].BasketSize >= 1
           /\ SumOver(DOMAIN baskets, [b \in DOMAIN baskets |-> baskets[b].BasketSize]) = Len(df)

\* A basket whose products are not in name order and whose rows are
\* separated by a row of another basket.
C23_Witness ==
    /\ CoocBuilt
    /\ Len(df) = 3
    /\ KeyOf(df[1]) = KeyOf(df[3])
    /\ KeyOf(df[2]) # KeyOf(df[1])
    /\ \E b \in DOMAIN get_basket_data(df) : get_basket_data(df)[b].Products = <<"B", "A">>

\* The triples (basket, i, j) with i # j, products[i] = a and products[j] = b.
PositionTriples(d, a, b) ==
    LET baskets == get_basket_data(d)
    IN {t \in (DOMAIN baskets) \X (1..Len(d)) \X (1..Len(d)) :
           /\ t[2] \in DOMAIN baskets[t[1]].Products
           /\ t[3] \in DOMAIN baskets[t[1]].Products
           /\ t[2] # t[3]
           /\ baskets[t[1]].Products[t[2]] = a
           /\ baskets[t[1]].Products[t[3]] = b}

PositivePartnerSet(p) ==
    {q \in (DOMAIN product_cooccurrence_matrix) \ {p} : product_cooccurrence_matrix[p][q] > 0}

\* C25: for a known product p the co-occurrence strategy returns
\* min(n, number of other products with cooc[p][q] > 0) entries, each scored
\* with its positive count cooc[p][q], in non-increasing order of score, and
\* no omitted product has a count above the smallest returned one.
C25_CooccurrenceTopPositive ==
    IsProductQuery("cooccurrence") =>
        LET p == result.arg[1]
            ret == result.ret
        IN /\ Len(ret) = Min(result.n, Cardinality(PositivePartnerSet(p)))
           /\ \A i \in DOMAIN ret :
                 /\ ret[i].product \in PositivePartnerSet(p)
                 /\ ret[i].score = Count(product_cooccurrence_matrix[p][ret[i].product])
           /\ \A i, j \in DOMAIN ret : i < j => ret[i].score.num >= ret[j].score.num
           /\ \A q \in (DOMAIN product_cooccurrence_matrix) \ ({p} \cup ProductsIn(ret)) :
                 \A i \in DOMAIN ret : product_cooccurrence_matrix[p][q] <= ret[i].score.num

\* One entry is asked for where two partners have different positive counts
\* and the larger count is not first in the index.
C25_Witness ==
    /\ IsProductQuery("cooccurrence")
    /\ result.n = 1
    /\ Cardinality(PositivePartnerSet(result.arg[1])) = 2
    /\ Len(result.ret) = 1
    /\ \E q \in PositivePartnerSet(result.arg[1]) :
          /\ product_cooccurrence_matrix[result.arg[1]][q] < result.ret[1].score.num
          /\ \E i, j \in DOMAIN unique_products :
                i < j /\ unique_products[i] = q /\ unique_products[j] = result.ret[1].product

\* C26: when the co-occurrence strategy, asked for 2n entries, gives fewer
\* than n, the hybrid list is the co-occurrence entries in their order, then
\* the entries of the similarity strategy (asked for n) whose product is not
\* among them, in their order, cut to n; each entry keeps the score it had in
\* the list it comes from.
C26_HybridMerge ==
    IsProductQuery("hybrid") =>
        LET p == result.arg[1]
            co == get_cooccurrence_recommendations(
                      product_cooccurrence_matrix, unique_products, p,
                      HybridFactor * result.n)
            sim == get_similarity_recommendations(
                       product_similarity_matrix, unique_products, p, result.n)
            fill == SelectSeq(sim, LAMBDA rec : rec.product \notin ProductsIn(co))
        IN Len(co) < result.n =>
              Unlabelled(result.ret) = Unlabelled(Head_(co \o fill, result.n))

\* One co-occurrence entry, which the similarity strategy lists too, and one
\* entry that only the similarity strategy gives.
C26_Witness ==
    /\ IsProductQuery("hybrid")
    /\ result.n = 2
    /\ Len(result.ret) = 2
    /\ Cardinality(PositivePartnerSet(result.arg[1])) = 1
    /\ result.ret[1].product \in PositivePartnerSet(result.arg[1])
    /\ result.ret[1].score = Count(product_cooccurrence_matrix[result.arg[1]][result.ret[1].product])
    /\ result.ret[1].score # product_similarity_matrix[result.ret[1].product][result.arg[1]]
    /\ result.ret[2].score = product_similarity_matrix[result.ret[2].product][result.arg[1]]

RECURSIVE SumOfSimilarities(_, _)
\* The sum of val[o] over the customers o in S.
SumOfSimilarities(S, val) ==
    IF S = {} THEN SimSumZero
    ELSE LET o == CHOOSE x \in S : TRUE
         IN SimSumAdd(SimSumOf(val[o]), SumOfSimilarities(S \ {o}, val))

\* N is a choice of the (at most 5) other customers most similar to customer c.
IsNearestSet(N, c) ==
    LET others == (DOMAIN customer_similarity_matrix) \ {c}
        s(o) == customer_similarity_matrix[o][c]
    IN /\ N \subseteq others
       /\ Cardinality(N) = Min(5, Cardinality(others))
       /\ \A m \in N : \A o \in others \ N : ~SimLess(s(m), s(o))

\* The members of N whose similarity to c is at least 0.2 = 1 / sqrt(25).
Qualifying(N, c) == {o \in N : ~SimLess(customer_similarity_matrix[o][c], Sim(1, 25))}

\* The members of Q who bought product p.
BuyersIn(Q, p) == {o \in Q : customer_product_matrix[o][p] = 1}

\* The products c has not bought that a member of Q bought.
UnboughtOf(Q, c) ==
    {p \in DOMAIN customer_product_matrix[c] :
        customer_product_matrix[c][p] = 0 /\ BuyersIn(Q, p) # {}}

\* ret lists the n best-scored products of cand by non-increasing score, each
\* once, with the sum of the similarities of its buyers in Q as its score.
IsCollaborativeRanking(ret, n, Q, cand, c) ==
    LET s == [o \in DOMAIN customer_similarity_matrix |-> customer_similarity_matrix[o][c]]
        score(p) == SumOfSimilarities(BuyersIn(Q, p), s)
        listed == {ret[i].product : i \in DOMAIN ret}
    IN /\ Len(ret) = Min(n, Cardinality(cand))
       /\ listed \subseteq cand
       /\ \A i, j \in DOMAIN ret : i # j => ret[i].product # ret[j].product
       /\ \A i \in DOMAIN ret :
             /\ ret[i].method = "collaborative"
             /\ ret[i].score = score(ret[i].product)
       /\ \A i, j \in DOMAIN ret : i < j => ~SimSumLess(ret[i].score, ret[j].score)
       /\ \A i \in DOMAIN ret : \A p \in cand \ listed : ~SimSumLess(ret[i].score, score(p))

\* C27: for a known customer c the neighbours are the (at most 5) other
\* customers most similar to c, of whom those with similarity below 0.2 are
\* left out and one at exactly 0.2 is kept; a product c has not bought scores
\* the sum of the similarities of the kept neighbours who bought it, and
\* when there is such a product the answer is the top n of them by
\* non-increasing score, labelled 'collaborative'.
C27_CollaborativeNeighbourScores ==
    /\ ~BelowThreshold(Sim(1, 25))
    /\ BelowThreshold(Sim(1, 26))
    /\ (status = "fitted" /\ result # NoResult /\ result.op = "customer"
          /\ result.arg[1] \in DOMAIN customer_product_matrix) =>
          LET c == result.arg[1]
          IN \E N \in SUBSET ((DOMAIN customer_similarity_matrix) \ {c}) :
                /\ IsNearestSet(N, c)
                /\ LET Q == Qualifying(N, c)
                       cand == UnboughtOf(Q, c)
                   IN cand # {} =>
                         IsCollaborativeRanking(result.ret, result.n, Q, cand, c)

\* Customer 1 of the seven-customer file asks for two products: the five
\* nearest neighbours bought B, the sixth alone bought C, and the answer is B
\* with score 5 / sqrt(2).
C27_Witness ==
    /\ file = SevenCustomers /\ status = "fitted" /\ result # NoResult
    /\ result.op = "customer" /\ result.arg = <<1>> /\ result.n = 2
    /\ result.ret = <<Rec("B", [SimSumZero EXCEPT !.r2 = 15], "collaborative")>>

\* The first 3 products of a basket list.
FirstThree(L) == SubSeq(L, 1, Min(3, Len(L)))

\* Product c is one of the 5 products that co-occur most with s, s itself set
\* aside: fewer than 5 other products co-occur with s more often.
AmongTopPartners(c, s) ==
    /\ c \in (DOMAIN product_cooccurrence_matrix) \ {s}
    /\ Cardinality({o \in (DOMAIN product_cooccurrence_matrix) \ {s} :
                       product_cooccurrence_matrix[o][s]
                          > product_cooccurrence_matrix[c][s]}) < 5

\* The positions among the first 3 of L whose product is in the matrix and
\* has c among its top partners.
SourcesOf(c, L) ==
    {k \in DOMAIN FirstThree(L) :
        L[k] \in DOMAIN product_cooccurrence_matrix /\ AmongTopPartners(c, L[k])}

ListQueries == {"product", "customer", "basket", "popular", "category"}

\* C29: the list a query returns (similarity, co-occurrence, hybrid,
\* collaborative, basket, popularity or category), asked for n >= 0 entries,
\* has at most n entries and no product twice.
C29_ListsDistinctAndBounded ==
    result.op \in ListQueries =>
        /\ Len(result.ret) <= result.n
        /\ \A i, j \in DOMAIN result.ret :
              i # j => result.ret[i].product # result.ret[j].product

\* The hybrid merge path: co-occurrence and similarity both propose the one
\* other product, two entries were asked for and the answer lists it once.
C29_Witness ==
    /\ IsProductQuery("hybrid") /\ result.n = 2
    /\ PositivePartners(result.arg[1]) = 1
    /\ Cardinality(DOMAIN product_similarity_matrix) = 2
    /\ Len(result.ret) = 1

LacksCategory(p) == product_categories(p) = None

\* C30: asked about two products that both have no entry in the category
\* table, explain_recommendation always gives the same-category reason, with
\* no category to name, and never the general-popularity reason, whatever
\* the matrices hold for the pair.
C30_UncategorisedPairSameCategory ==
    (result.op = "explain" /\ LacksCategory(result.arg[1]) /\ LacksCategory(result.arg[2])) =>
        /\ \E i \in DOMAIN result.ret : result.ret[i] = Reason("same category", None)
        /\ \A i \in DOMAIN result.ret : result.ret[i].reason # "general popularity"

\* C and E are both in the matrices, never bought together and with
\* similarity 0, and the only reason given is the same category.
C30_Witness ==
    /\ result.op = "explain" /\ result.arg = <<"C", "E">>
    /\ {"C", "E"} \subseteq DOMAIN product_cooccurrence_matrix
    /\ product_cooccurrence_matrix["C"]["E"] = 0
    /\ ~SimLess(Sim(3, 100), product_similarity_matrix["C"]["E"])
    /\ result.ret = <<Reason("same category", None)>>

====
